---- MODULE Spec2Model ----
(***************************************************************************)
(* Vector-search-augmented retrieval of LlegoBackend.                      *)
(*                                                                         *)
(* The GraphQL resolvers search_products / search_branches, the            *)
(* VectorSearchService they call, the Gemini embedding service, the        *)
(* repositories' get_by_id / search and the bulk vectorization handlers    *)
(* that fill the index.  The product and the branch pipeline run the same  *)
(* code over disjoint collections ("products", "branches") of both stores; *)
(* a behaviour follows one of them, chosen by `entity`.                    *)
(*                                                                         *)
(* Similarity scores are percentages: 0.60 is 60.                          *)
(*                                                                         *)
(* Spec follows the searches, with the store edited and the index filled   *)
(* under them.  SpecColl, SpecJob and SpecCalls follow the REST handlers   *)
(* (POST /qdrant/collections, POST /vectorize/...) from await to await:    *)
(* the creation of the collection by concurrent callers, the vectorization *)
(* run repeated over unchanged records, and the calls of the embedding     *)
(* provider by a run and the searches beside it.  SpecTwo follows two runs *)
(* in flight together, SpecLoop a search and a run on the event loop's one *)
(* thread.  SpecLife follows the lifespan (startup, the requests served,   *)
(* shutdown), SpecClient the index client's connect and close called in    *)
(* any order, SpecPay POST /payments/validate and SpecReg the register     *)
(* calls.                                                                  *)
(***************************************************************************)
EXTENDS Integers, Sequences, FiniteSets, TLC

VARIABLES
    entity,         \* "products" or "branches": the pipeline this behaviour follows
    qdrant_client,  \* clients/qdrant_client.py: the global client, "None" or "client"
    gemini_client,  \* clients/gemini_client.py: the global client, "None" or "client"
    db,             \* the document store's collection: record id -> document or NoDoc
    index,          \* the vector index's collection: [exists, config, points: the set of its points]
    edits,          \* number of record edits and deletions so far
    req,            \* the search request in flight
    tasks,          \* the REST handler invocations in flight: task id -> its frame
    runs,           \* number of REST handler invocations started so far
    mongo_client,   \* clients/mongodb_client.py: the global client, "None", "client" or "closed"
    database,       \* clients/mongodb_client.py: the global database handle, "None" or "database"
    lifespan,       \* clients/lifespan.py: where the application's lifespan is
    running,        \* the coroutine whose synchronous call holds the event loop's thread, or "None"
    payments,       \* the document store's payments collection: the documents inserted
    pay,            \* the payment validation in flight
    users,          \* the document store's users collection: the documents inserted
    regs            \* the register calls in flight: call id -> its frame

\* the state beside the retrieval pipeline
process == <<mongo_client, database, lifespan, running, payments, pay, users, regs>>

vars == <<entity, qdrant_client, gemini_client, db, index, edits, req, tasks, runs, process>>

----------------------------------------------------------------------------
(* Bounds *)

NumIds == 3       \* record identifiers 1..NumIds
MaxEdits == 1     \* record edits and deletions in one behaviour
MaxRuns == 2      \* REST handler invocations in one behaviour

Ids == 1..NumIds
Queries == {1, 2}           \* query texts
Names == {0, 1, 2}          \* name texts; 0 is the blank name, n > 0 the text query n is closest to
Limits == 0..NumIds         \* the `limit` argument
Entities == {"products", "branches"}
\* the records failing at one stage of a vectorization run: none, or the first
FailingSets == {{}, {1}}
TaskIds == {1, 2}           \* the REST handler invocations that may be in flight together
\* how a call to the index fails: str(e) contains "connection", or "timeout"
Failures == {"connection", "timeout"}
Outcomes == {"ok"} \cup Failures

----------------------------------------------------------------------------
(* Settings and program constants *)

embedding_task_type == "RETRIEVAL_DOCUMENT"
ProductsDefaultThreshold == 60
BranchesDefaultThreshold == 55
NoThreshold == -1           \* score_threshold: Optional[float] = None
Thresholds == {NoThreshold, 0, 99}   \* what a caller of the service passes

----------------------------------------------------------------------------
(* Documents, points, embeddings *)

NoDoc == [id |-> 0, name |-> 0]

\* VectorParams(size, distance) of a collection; no collection has none
NoConfig == [size |-> 0, distance |-> "None"]
\* vector_size=768, distance=Distance.COSINE: what the vectorization handlers create
DefaultConfig == [size |-> 768, distance |-> "Cosine"]

NoPoints == {}
\* creates: the number of create requests the index has carried out for the name
NoCollection == [exists |-> FALSE, config |-> NoConfig, points |-> NoPoints, creates |-> 0]

\* mutation: uuid.uuid4(), a new id at every run
PointUuidPerRun(id) == <<"uuid4", id, runs>>

\* uuid.uuid5(uuid.NAMESPACE_DNS, record.id): a deterministic, injective derivation
PointUuid(id) == <<"uuid5", id>>

\* embed_content(model, contents, task_type, output_dimensionality): the vector is a
\* function of the text and of the task type
EmbedContent(text, task_type) == [text |-> text, task_type |-> task_type]

\* mutation: the task type argument is ignored
GenerateEmbeddingTaskTypeIgnoresArg(task_type) == embedding_task_type

\* GeminiEmbeddingService.generate_embedding: the task type it sends
GenerateEmbeddingTaskType(task_type) ==
    IF task_type = "None" THEN embedding_task_type ELSE task_type

GenerateEmbedding(text, task_type) ==
    EmbedContent(text, GenerateEmbeddingTaskType(task_type))

\* The index's similarity of a query vector and a point's vector, in percent.
\* A query embedded as RETRIEVAL_QUERY against documents embedded as
\* RETRIEVAL_DOCUMENT: 90 for the text the query is closest to, 60 and 57 around
\* the default thresholds for the others.  Any other pairing of task types lies
\* in another embedding space and scores low.
Similarity(qv, pv) ==
    IF qv.task_type = "RETRIEVAL_QUERY" /\ pv.task_type = "RETRIEVAL_DOCUMENT"
    THEN IF pv.text = qv.text THEN 90
         ELSE IF pv.text > qv.text THEN 60 ELSE 57
    ELSE 30

----------------------------------------------------------------------------
(* The vector index: search(collection_name, query_vector, limit, score_threshold) *)

ScoredPoint(point, query_vector) ==
    [id |-> point.point_id, score |-> Similarity(query_vector, point.vector),
     payload |-> point.payload]

\* the hit ranked first among the points `hits`: highest score, ties by record id
BestOf(query_vector, hits) ==
    CHOOSE a \in hits : \A b \in hits :
        LET sa == Similarity(query_vector, a.vector)
            sb == Similarity(query_vector, b.vector)
        IN  sa > sb \/ (sa = sb /\ a.payload.id <= b.payload.id)

RECURSIVE Ranked(_, _, _)
Ranked(query_vector, hits, limit) ==
    IF hits = {} \/ limit <= 0 THEN <<>>
    ELSE LET a == BestOf(query_vector, hits)
         IN  <<ScoredPoint(a, query_vector)>>
             \o Ranked(query_vector, hits \ {a}, limit - 1)

QdrantSearch(points, params) ==
    Ranked(params.query_vector,
           {p \in points : Similarity(params.query_vector, p.vector)
                               >= params.score_threshold},
           params.limit)

----------------------------------------------------------------------------
(* VectorSearchService.search_products / search_branches *)

DefaultThreshold(e) ==
    IF e = "products" THEN ProductsDefaultThreshold ELSE BranchesDefaultThreshold

\* mutation: `score_threshold or <default>`, which takes 0 for missing
ResolveThresholdFalsy(e, score_threshold) ==
    IF score_threshold \notin {NoThreshold, 0} THEN score_threshold ELSE DefaultThreshold(e)

\* score_threshold if score_threshold is not None else <default>
ResolveThreshold(e, score_threshold) ==
    IF score_threshold # NoThreshold THEN score_threshold ELSE DefaultThreshold(e)

\* mutation: the caller's limit is dropped and the signature's default 10 sent
SearchParamsDefaultLimit(e, query_embedding, limit, score_threshold) ==
    [collection_name |-> e, query_vector |-> query_embedding, limit |-> 10,
     score_threshold |-> ResolveThreshold(e, score_threshold)]

SearchParams(e, query_embedding, limit, score_threshold) ==
    [collection_name |-> e, query_vector |-> query_embedding, limit |-> limit,
     score_threshold |-> ResolveThreshold(e, score_threshold)]

\* mutation: the ids are taken from the hits last to first
PayloadIdsReversed(results) ==
    [k \in 1..Len(results) |-> results[Len(results) + 1 - k].payload.id]

\* [point.payload["id"] for point in results]
PayloadIds(results) == [k \in 1..Len(results) |-> results[k].payload.id]

----------------------------------------------------------------------------
(* Repositories *)

\* mutation: the record is rebuilt from the copy in the index point's payload
GetByIdFromPayload(d, id) ==
    IF d[id] = NoDoc THEN NoDoc
    ELSE LET h == CHOOSE h \in 1..Len(req.results) : req.results[h].payload.id = id
         IN  [id |-> id, name |-> req.results[h].payload.name]

\* get_by_id: find_one by _id; the document, or None (NoDoc)
GetById(d, id) == d[id]

\* {"name": {"$regex": query, "$options": "i"}}: the name text contains the query text
Matches(query, doc) == doc.name = query

RECURSIVE FindFrom(_, _, _)
FindFrom(d, query, id) ==
    IF id > NumIds THEN <<>>
    ELSE (IF d[id] # NoDoc /\ Matches(query, d[id]) THEN <<d[id]>> ELSE <<>>)
         \o FindFrom(d, query, id + 1)

\* search: every document whose text matches, in the store's natural order
RepoSearch(d, query) == FindFrom(d, query, 1)

RECURSIVE AllFrom(_, _)
AllFrom(d, id) ==
    IF id > NumIds THEN <<>>
    ELSE (IF d[id] # NoDoc THEN <<d[id]>> ELSE <<>>) \o AllFrom(d, id + 1)

\* get_all: every document of the collection
GetAll(d) == AllFrom(d, 1)

----------------------------------------------------------------------------
(* The bulk vectorization handlers: vectorize_all_products / vectorize_all_branches *)

\* mutation: the point id is derived from the record's name
PointStructByName(record, embedding) ==
    [point_id |-> PointUuid(record.name), vector |-> embedding,
     payload |-> [id |-> record.id, name |-> record.name]]

\* PointStruct(id=point_uuid, vector=embedding, payload={"id": ..., "name": ...})
PointStruct(record, embedding) ==
    [point_id |-> PointUuid(record.id), vector |-> embedding,
     payload |-> [id |-> record.id, name |-> record.name]]

\* mutation: the blank test is dropped
BlankNever(record) == FALSE

\* not record.name or not record.name.strip() (for a branch: of its name or of its
\* address): the record's text is missing or blank
Blank(record) == record.name = 0

\* generate_embedding(record text): no task type is passed
VectorizeEmbedding(record) == GenerateEmbedding(record.name, "None")

\* upsert(collection_name, points=[point]): the point replaces the collection's
\* point of the same point id, or is added when there is none
Upsert(points, point) == {p \in points : p.point_id # point.point_id} \cup {point}

\* one pass of the item loop over `record`; st = [points, vectorized_count, errors,
\* skipped]
VectorizeItem(record, st, embedFail, upsertFail) ==
    IF Blank(record)
    THEN [st EXCEPT !.skipped = Append(@, record.id)]
    ELSE IF record.id \in embedFail
    THEN [st EXCEPT !.errors = Append(@, <<record.id, "embedding_generation">>)]
    ELSE IF record.id \in upsertFail
    THEN [st EXCEPT !.errors = Append(@, <<record.id, "qdrant_upsert">>)]
    ELSE [st EXCEPT !.points = Upsert(@, PointStruct(record, VectorizeEmbedding(record))),
                    !.vectorized_count = @ + 1]

RECURSIVE VectorizeLoop(_, _, _, _)
VectorizeLoop(records, st, embedFail, upsertFail) ==
    IF records = <<>> THEN st
    ELSE VectorizeLoop(Tail(records),
                       VectorizeItem(Head(records), st, embedFail, upsertFail),
                       embedFail, upsertFail)

----------------------------------------------------------------------------
(* The search request *)

NoVector == [text |-> 0, task_type |-> "None"]

IdleReq ==
    [pc |-> "idle", origin |-> "None", query |-> 0, limit |-> 0,
     use_vector_search |-> FALSE, score_threshold |-> NoThreshold,
     query_embedding |-> NoVector,
     embed_calls |-> <<>>,      \* the embed calls of this request: task types
     index_calls |-> <<>>,      \* the search parameters sent to the index
     store_searches |-> <<>>,   \* the repository search() calls: queries
     results |-> <<>>,          \* the index's ranked hits
     ids |-> <<>>,              \* the service's return value
     fetched |-> <<>>,          \* per id fetched so far: the store's document then, or NoDoc
     products |-> <<>>,         \* the records collected, then returned
     returned |-> FALSE,        \* the request ended by returning a value
     failed |-> "None",         \* the step that failed: client, embedding, index
     error |-> "None"]          \* the exception that reached the caller

\* mutation: the exception is swallowed and an empty list returned
RaiseReturnsEmpty(r, step, exc) ==
    [r EXCEPT !.pc = "done", !.failed = step, !.returned = TRUE]

\* mutation: the exception is caught and the keyword search taken instead
RaiseFallsBack(r, step, exc) == [r EXCEPT !.pc = "keyword", !.failed = step]

\* An exception in the vector path meets no handler in the service or the
\* resolver: the request ends with that exception.
Raise(r, step, exc) == [r EXCEPT !.pc = "done", !.failed = step, !.error = exc]

\* return <value>
Return(r) == [r EXCEPT !.pc = "done", !.returned = TRUE]

\* VectorSearchService.__init__: get_qdrant_client(), then GeminiEmbeddingService()
\* and its get_gemini_client(); each raises RuntimeError on an unset global
ConstructService(r) ==
    IF qdrant_client = "None" \/ gemini_client = "None"
    THEN Raise(r, "client", "RuntimeError")
    ELSE [r EXCEPT !.pc = "embed"]

\* mutation: the service is constructed before the branch
ResolverEntryConstructsFirst(r) ==
    IF ConstructService(r).pc = "done" THEN ConstructService(r)
    ELSE IF r.use_vector_search THEN ConstructService(r) ELSE [r EXCEPT !.pc = "keyword"]

\* the resolver's branch on use_vector_search
ResolverEntry(r) ==
    IF r.use_vector_search THEN ConstructService(r) ELSE [r EXCEPT !.pc = "keyword"]

\* the task type the service passes to generate_embedding
SearchTaskType == "RETRIEVAL_QUERY"

\* mutation: products.insert(0, product)
HydrateOnePrepends(products, product) ==
    IF product # NoDoc THEN <<product>> \o products ELSE products

\* if product: products.append(product)
HydrateOne(products, product) ==
    IF product # NoDoc THEN Append(products, product) ELSE products

\* mutation: a missing record raises
HydrateStepRaises(r, product) ==
    IF product = NoDoc THEN [r EXCEPT !.pc = "done", !.failed = "hydrate", !.error = "NotFound"]
    ELSE [r EXCEPT !.products = Append(@, product)]

\* one pass of the resolver's loop with the repository's answer
HydrateStep(r, product) == [r EXCEPT !.products = HydrateOne(@, product)]

\* mutation: a search without hits is an error
AfterServiceRaisesOnEmpty(r) ==
    IF Len(r.ids) = 0 THEN [r EXCEPT !.pc = "done", !.error = "NotFound"]
    ELSE IF r.origin = "service" THEN Return(r) ELSE [r EXCEPT !.pc = "hydrate"]

\* after the service returned `ids`: the resolver fetches them one by one, and
\* returns at once when there is none
AfterService(r) ==
    IF r.origin = "service" \/ Len(r.ids) = 0 THEN Return(r)
    ELSE [r EXCEPT !.pc = "hydrate"]

----------------------------------------------------------------------------
(* The REST handlers: POST /qdrant/collections (create_qdrant_collection) and
   POST /vectorize/products, /vectorize/branches, one step per await.  A task is
   one invocation of a handler; its frame holds the handler's locals and, for the
   properties, what it has called so far.  *)

IdleTask ==
    [pc |-> "idle", kind |-> "None",
     params |-> NoConfig,           \* vector_size and distance asked for
     records |-> <<>>,              \* products = await products_repo.get_all()
     idx |-> 0,                     \* records the loop is done with
     check |-> "None",              \* how get_collection ended: found, not_found, or a failure
     cc_calls |-> 0,                \* calls of create_collection()
     cc_seen |-> "None",            \* what create_collection's get_collections() showed
     create_requests |-> 0,         \* client.create_collection requests sent
     create_reply |-> "None",       \* how the request ended: created, false, an error
     cc_result |-> "None",          \* create_collection(): True, False or raise
     collection_created |-> FALSE,
     vectorized_count |-> 0, errors |-> <<>>, skipped |-> <<>>,
     log |-> <<>>,                  \* the embed and upsert calls made, in order
     points_at_start |-> NoPoints,  \* the collection's points when the request came in
     status |-> "None",             \* "status" of the response body
     existing_config |-> NoConfig,  \* "existing_config" of the response body
     http |-> 0,                    \* status code of the response
     error |-> "None"]              \* "error" of an HTTPException's detail

\* client.create_collection(collection_name, vectors_config) carried out by the index
ServerCreate(ix, params) ==
    [exists |-> TRUE, config |-> params, points |-> NoPoints, creates |-> ix.creates + 1]

\* raise HTTPException(status_code, detail)
HttpError(task, status_code, error) ==
    [task EXCEPT !.pc = "done", !.http = status_code, !.error = error]

\* return {"status": ..., ...}
HttpOk(task, status) == [task EXCEPT !.pc = "done", !.http = 200, !.status = status]

\* create_qdrant_collection: except Exception as e, by the words of str(e)
EndpointError(task, exc) ==
    IF exc = "already exists" THEN HttpError(task, 409, "Collection already exists")
    ELSE IF exc = "timeout" THEN HttpError(task, 504, "Qdrant timeout")
    ELSE IF exc = "connection" THEN HttpError(task, 503, "Qdrant connection error")
    ELSE HttpError(task, 500, exc)

\* mutation: the failure to set the collection up is swallowed and the loop entered
EnsureFailedContinues(task) == [task EXCEPT !.pc = "loop"]

\* vectorize_all_*: create_collection returned False or raised: HTTPException(500),
\* "Collection setup failed"
EnsureFailed(task) == HttpError(task, 500, "Collection setup failed")

\* what the caller of create_collection() does with its return value
CcReturn(task, result) ==
    LET t1 == [task EXCEPT !.cc_result = result]
    IN  IF task.kind = "vectorize"
        THEN IF result = "True"
             THEN [t1 EXCEPT !.collection_created = TRUE, !.pc = "loop"]
             ELSE EnsureFailed(t1)
        ELSE IF result = "True"
             THEN HttpOk(t1, "created")
             ELSE HttpError(t1, 500, "Collection creation failed")

\* what the caller of create_collection() does with an exception it raises
CcRaise(task, exc) ==
    LET t1 == [task EXCEPT !.cc_result = "raise"]
    IN  IF task.kind = "vectorize" THEN EnsureFailed(t1) ELSE EndpointError(t1, exc)

\* the call of create_collection(): get_qdrant_client(), then await get_collections()
CcEnter(task) == [task EXCEPT !.pc = "cc_list", !.cc_calls = @ + 1]

\* mutation: the existence check is dropped and the create always sent
CcAfterListNoCheck(task, exists) ==
    [task EXCEPT !.cc_seen = IF exists THEN "exists" ELSE "absent", !.pc = "cc_create"]

\* create_collection: if collection_name in existing_collections: return True
CcAfterList(task, exists) ==
    IF exists THEN CcReturn([task EXCEPT !.cc_seen = "exists"], "True")
    ELSE [task EXCEPT !.cc_seen = "absent", !.pc = "cc_create"]

\* mutation: every exception is raised again
CcOnErrorReraises(task, exc) == CcRaise(task, exc)

\* create_collection: except Exception as e: "already exists" in str(e).lower()
\* returns True, anything else is raised again
CcOnError(task, exc) ==
    IF exc = "already exists" THEN CcReturn(task, "True") ELSE CcRaise(task, exc)

\* mutation: the collection is never created
AfterGetCollectionNeverCreates(task, check) == [task EXCEPT !.check = check, !.pc = "loop"]

\* vectorize_all_*: `await get_collection(...)` returned, or `except Exception:` calls
\* create_collection()
AfterGetCollection(task, check) ==
    IF check = "found" THEN [task EXCEPT !.check = check, !.pc = "loop"]
    ELSE CcEnter([task EXCEPT !.check = check])

\* mutation: "failed" only when nothing was vectorized and nothing went wrong
ReportStatusErrorsFirst(vectorized_count, errors, skipped) ==
    IF errors # <<>> \/ skipped # <<>> THEN "partial_success"
    ELSE IF vectorized_count = 0 THEN "failed" ELSE "success"

\* Determine overall status
ReportStatus(vectorized_count, errors, skipped) ==
    IF vectorized_count = 0 THEN "failed"
    ELSE IF errors # <<>> \/ skipped # <<>> THEN "partial_success"
    ELSE "success"

\* the response after the loop
Report(task) ==
    HttpOk(task, ReportStatus(task.vectorized_count, task.errors, task.skipped))

\* mutation: the records are taken last to first
ItemAtReversed(records, idx) == records[Len(records) - idx]

\* for idx, product in enumerate(products, 1): the record after `idx` records
ItemAt(records, idx) == records[idx + 1]

\* mutation: a failed call is silently made once more
EmbedCallRetries(task, record, ok) ==
    [task EXCEPT !.log = IF ok THEN Append(@, <<"embed", record.id, ok>>)
                         ELSE @ \o <<<<"embed", record.id, ok>>, <<"embed", record.id, ok>>>>]

\* embedding_service.generate_embedding(text): one call of the provider
EmbedCall(task, record, ok) == [task EXCEPT !.log = Append(@, <<"embed", record.id, ok>>)]

\* skipped.append({...}); continue
OnSkipped(task, record) ==
    [task EXCEPT !.skipped = Append(@, record.id), !.idx = @ + 1]

\* mutation: the embedding error is not caught and ends the run
OnEmbedErrorAborts(task, record) ==
    HttpError(task, 500, "Unexpected error during vectorization")

\* except Exception as embed_error: errors.append({...}); continue
OnEmbedError(task, record) ==
    [task EXCEPT !.errors = Append(@, <<record.id, "embedding_generation">>), !.idx = @ + 1]

\* the embedding is there: the point is built and `await qdrant_client.upsert` reached
OnEmbedded(task, record) == [task EXCEPT !.pc = "upsert"]

\* the handler's code from the top of the loop to its next await (the upsert of the
\* first record that is not blank and whose embedding succeeds) or to its return;
\* generate_embedding is a plain synchronous call.  embedFail: the records whose
\* embedding call fails.
RECURSIVE RunToAwait(_, _)
RunToAwait(task, embedFail) ==
    IF task.pc # "loop" THEN task
    ELSE IF task.idx >= Len(task.records) THEN Report(task)
    ELSE LET record == ItemAt(task.records, task.idx)
         IN  IF Blank(record) THEN RunToAwait(OnSkipped(task, record), embedFail)
             ELSE IF record.id \in embedFail
             THEN RunToAwait(OnEmbedError(EmbedCall(task, record, FALSE), record), embedFail)
             ELSE OnEmbedded(EmbedCall(task, record, TRUE), record)

\* vectorized_count += 1, and the loop goes on
OnUpserted(task, record) ==
    [task EXCEPT !.log = Append(@, <<"upsert", record.id, TRUE>>),
                 !.vectorized_count = @ + 1, !.idx = @ + 1, !.pc = "loop"]

\* mutation: a failed upsert is counted as vectorized too
OnUpsertErrorCounts(task, record) ==
    [task EXCEPT !.log = Append(@, <<"upsert", record.id, FALSE>>),
                 !.errors = Append(@, <<record.id, "qdrant_upsert">>),
                 !.vectorized_count = @ + 1, !.idx = @ + 1, !.pc = "loop"]

\* except Exception as upsert_error: errors.append({...}), and the loop goes on
OnUpsertError(task, record) ==
    [task EXCEPT !.log = Append(@, <<"upsert", record.id, FALSE>>),
                 !.errors = Append(@, <<record.id, "qdrant_upsert">>),
                 !.idx = @ + 1, !.pc = "loop"]

----------------------------------------------------------------------------
(* The process-wide clients (clients/mongodb_client.py, qdrant_client.py,
   gemini_client.py) and the lifespan that connects and closes them *)

\* lifespan: phase, the client function called last, what it returned or raised,
\* what the startup's connect_to_qdrant() returned, and the calls of the index
\* client's functions so far
NoLifespan == [phase |-> "created", call |-> "None", result |-> "None",
               qdrant_connected |-> "None", calls |-> <<>>]
ServingLifespan == [phase |-> "serving", call |-> "connect_to_gemini", result |-> "None",
                    qdrant_connected |-> "None", calls |-> <<>>]

\* how a call of connect_to_qdrant() goes: all well; socket.getaddrinfo raises
\* gaierror; AsyncQdrantClient(...) raises; the test get_collections() raises and
\* close() goes through; the test raises and close() raises too
ConnectOutcomes == {"ok", "dns", "init", "test", "test_close"}

\* connect_to_qdrant: the global after the call
ConnectToQdrantClient(client, outcome) ==
    IF outcome = "dns" THEN client          \* return False before the global is touched
    ELSE IF outcome = "ok" THEN "client"
    ELSE "None"                             \* qdrant_client = None on any other failure

\* mutation: a failed connection test is raised to the caller
ConnectToQdrantRaisesOnTest(outcome) ==
    IF outcome = "ok" THEN "True"
    ELSE IF outcome \in {"test", "test_close"} THEN "raise" ELSE "False"

\* connect_to_qdrant: its return value; no path raises
ConnectToQdrantResult(outcome) == IF outcome = "ok" THEN "True" ELSE "False"

\* close_qdrant_connection: try: await close() ... finally: qdrant_client = None
CloseQdrantClient(client, closeOk) == "None"

\* close_mongo_connection: mongo_client.close(); neither global is assigned
CloseMongoClient(client) == IF client # "None" THEN "closed" ELSE client

\* get_database(), get_qdrant_client(), get_gemini_client(): the handle, or
\* RuntimeError when the global is None
GetDatabase == IF database = "None" THEN "RuntimeError" ELSE database
GetQdrantClient == IF qdrant_client = "None" THEN "RuntimeError" ELSE qdrant_client
GetGeminiClient == IF gemini_client = "None" THEN "RuntimeError" ELSE gemini_client

----------------------------------------------------------------------------
(* POST /payments/validate and POST /auth/register, the register mutation *)

\* a text is a sequence of characters
Whitespace == {" "}

RECURSIVE LStrip(_)
LStrip(text) ==
    IF text # <<>> /\ Head(text) \in Whitespace THEN LStrip(Tail(text)) ELSE text

RECURSIVE RStrip(_)
RStrip(text) ==
    IF text # <<>> /\ text[Len(text)] \in Whitespace
    THEN RStrip(SubSeq(text, 1, Len(text) - 1)) ELSE text

\* mutation: only the leading whitespace is removed
StripLeading(text) == LStrip(text)

\* str.strip()
Strip(text) == RStrip(LStrip(text))

NoResponse == [valid |-> FALSE, es_mensaje_banco |-> FALSE, numero_transferencia |-> <<>>]

\* saved_payment: Optional[SmsOcr] = None
NoPayment == [id |-> 0, numero_transferencia |-> <<>>]

IdlePay ==
    [pc |-> "idle", file_bytes |-> 0, transfer_id |-> <<>>,
     answered |-> FALSE,               \* generate_content has answered
     response |-> NoResponse,          \* what it answered
     gemini_data |-> NoResponse,       \* the validated response of a bank message
     matched |-> FALSE, detected_transfer_id |-> <<>>,
     saved_payment |-> NoPayment,      \* the document payments_repo.create returned
     payments_at_start |-> <<>>,       \* the collection when the request came in
     returned |-> FALSE,               \* a PaymentValidationResult was returned
     error |-> "None", http |-> 0]

RegIds == {1, 2}            \* the register calls that may be in flight together
Emails == {"a@llego", "b@llego"}
Origins == {"rest", "graphql"}

IdleReg ==
    [pc |-> "idle", origin |-> "None", email |-> "None",
     existing_user |-> FALSE,          \* what get_user_by_email found
     created |-> FALSE,                \* create_user returned a user
     error |-> "None", http |-> 0]

----------------------------------------------------------------------------
(* Initial state: the application after its lifespan's startup.  connect_to_mongo
   and connect_to_gemini raise on failure and stop the startup; connect_to_qdrant
   returns False and leaves the global None.  *)

\* no payment validation and no register call is followed
NoOtherCalls ==
    /\ payments = <<>>
    /\ pay = <<>>
    /\ users = <<>>
    /\ regs = <<>>

\* the lifespan is past its startup and the application serves requests;
\* connect_to_mongo went through
Started ==
    /\ mongo_client = "client"
    /\ database = "database"
    /\ lifespan = ServingLifespan
    /\ running = "None"

AfterStartup == Started /\ NoOtherCalls

InitDb == [id \in Ids |-> [id |-> id, name |-> ((id - 1) % 2) + 1]]

Init ==
    /\ entity \in Entities
    /\ qdrant_client \in {"None", "client"}
    /\ gemini_client = "client"
    /\ db = InitDb
    /\ index = NoCollection
    /\ edits = 0
    /\ req = IdleReq
    /\ tasks = <<>>       \* no REST handler invocation is followed
    /\ runs = 0
    /\ AfterStartup

----------------------------------------------------------------------------
(* The store's other writers *)

DeleteRecord(id) ==
    /\ edits < MaxEdits
    /\ db[id] # NoDoc
    /\ db' = [db EXCEPT ![id] = NoDoc]
    /\ edits' = edits + 1
    /\ UNCHANGED <<process, entity, qdrant_client, gemini_client, index, req, tasks, runs>>

EditRecord(id, name) ==
    /\ edits < MaxEdits
    /\ db[id] # NoDoc
    /\ db[id].name # name
    /\ db' = [db EXCEPT ![id].name = name]
    /\ edits' = edits + 1
    /\ UNCHANGED <<process, entity, qdrant_client, gemini_client, index, req, tasks, runs>>

----------------------------------------------------------------------------
(* POST /vectorize/products, /vectorize/branches *)

VectorizeAll(createOk, embedFail, upsertFail) ==
    LET records == GetAll(db)
        st0 == [points |-> index.points, vectorized_count |-> 0, errors |-> <<>>,
                skipped |-> <<>>]
        st == VectorizeLoop(records, st0, embedFail, upsertFail)
    IN  /\ qdrant_client # "None"                  \* else 503, nothing done
        /\ records # <<>>                          \* else "no_data", nothing done
        /\ gemini_client # "None"                  \* else 503, nothing done
        /\ index.exists \/ createOk                \* else 500, nothing done
        /\ index' = [exists |-> TRUE,
                     config |-> IF index.exists THEN index.config ELSE DefaultConfig,
                     points |-> st.points,
                     creates |-> IF index.exists THEN index.creates ELSE 1]
        /\ UNCHANGED <<process, entity, qdrant_client, gemini_client, db, edits, req, tasks, runs>>

----------------------------------------------------------------------------
(* The search request, step by step *)

\* self.embedding_service.generate_embedding(query, task_type="RETRIEVAL_QUERY"):
\* a synchronous call, made in the step that entered the service
QueryEmbedding(r, ok) ==
    LET task == GenerateEmbeddingTaskType(SearchTaskType)
        r1 == [r EXCEPT !.embed_calls = Append(@, task)]
    IN  IF r.pc # "embed" THEN r
        ELSE IF ok
        THEN [r1 EXCEPT !.pc = "search",
                        !.query_embedding = GenerateEmbedding(r.query, SearchTaskType)]
        ELSE Raise(r1, "embedding", "GeminiAPIError")

\* GraphQL search_products / search_branches (query, limit, use_vector_search), up to
\* its first await
SearchResolver(query, limit, use_vector_search, embedOk) ==
    /\ req.pc = "idle"
    /\ req' = QueryEmbedding(
                  ResolverEntry([IdleReq EXCEPT !.origin = "graphql", !.query = query,
                                                !.limit = limit,
                                                !.use_vector_search = use_vector_search]),
                  embedOk)
    /\ UNCHANGED <<process, entity, qdrant_client, gemini_client, db, index, edits, tasks, runs>>

\* VectorSearchService().search_products / search_branches (query, limit,
\* score_threshold), up to its first await
ServiceSearch(query, limit, score_threshold, embedOk) ==
    /\ req.pc = "idle"
    /\ req' = QueryEmbedding(
                  ConstructService([IdleReq EXCEPT !.origin = "service", !.query = query,
                                                   !.limit = limit,
                                                   !.use_vector_search = TRUE,
                                                   !.score_threshold = score_threshold]),
                  embedOk)
    /\ UNCHANGED <<process, entity, qdrant_client, gemini_client, db, index, edits, tasks, runs>>

\* await self.qdrant_client.search(**search_params), then the ids of the hits
IndexSearch(ok) ==
    /\ req.pc = "search"
    /\ LET params == SearchParams(entity, req.query_embedding, req.limit,
                                  req.score_threshold)
           r == [req EXCEPT !.index_calls = Append(@, params)]
           results == QdrantSearch(index.points, params)
       IN  req' = IF ok /\ index.exists
                  THEN AfterService([r EXCEPT !.results = results,
                                              !.ids = PayloadIds(results)])
                  ELSE Raise(r, "index", "QdrantException")
    /\ UNCHANGED <<process, entity, qdrant_client, gemini_client, db, index, edits, tasks, runs>>

\* one pass of the loop: product = await repo.get_by_id(product_id); if product: ...
Hydrate ==
    /\ req.pc = "hydrate"
    /\ LET id == req.ids[Len(req.fetched) + 1]
           r == [HydrateStep(req, GetById(db, id)) EXCEPT !.fetched = Append(@, db[id])]
       IN  req' = IF r.pc = "hydrate" /\ Len(r.fetched) = Len(r.ids) THEN Return(r) ELSE r
    /\ UNCHANGED <<process, entity, qdrant_client, gemini_client, db, index, edits, tasks, runs>>

\* products = await products_repo.search(query)
KeywordSearch ==
    /\ req.pc = "keyword"
    /\ req' = IF GetDatabase = "RuntimeError" THEN Raise(req, "store", "RuntimeError")
              ELSE Return([req EXCEPT !.store_searches = Append(@, req.query),
                                      !.products = RepoSearch(db, req.query)])
    /\ UNCHANGED <<process, entity, qdrant_client, gemini_client, db, index, edits, tasks, runs>>

\* the response is sent; the next request may come
Respond ==
    /\ req.pc = "done"
    /\ req' = IdleReq
    /\ UNCHANGED <<process, entity, qdrant_client, gemini_client, db, index, edits, tasks, runs>>

Next ==
    \/ \E id \in Ids : DeleteRecord(id)
    \/ \E id \in Ids, name \in Names : EditRecord(id, name)
    \/ \E createOk \in BOOLEAN, embedFail \in FailingSets, upsertFail \in FailingSets :
           VectorizeAll(createOk, embedFail, upsertFail)
    \/ \E query \in Queries, limit \in Limits, use_vector_search \in BOOLEAN,
          embedOk \in BOOLEAN :
           SearchResolver(query, limit, use_vector_search, embedOk)
    \/ \E query \in Queries, limit \in Limits, score_threshold \in Thresholds,
          embedOk \in BOOLEAN :
           ServiceSearch(query, limit, score_threshold, embedOk)
    \/ \E ok \in BOOLEAN : IndexSearch(ok)
    \/ Hydrate
    \/ KeywordSearch
    \/ Respond

Spec == Init /\ [][Next]_vars

----------------------------------------------------------------------------
(* POST /vectorize/products, /vectorize/branches, await by await *)

\* the handler's code after `await products_repo.get_all()`: the "no_data" return,
\* then GeminiEmbeddingService() and its get_gemini_client()
AfterGetAll(task, records) ==
    IF records = <<>> THEN HttpOk(task, "no_data")
    ELSE IF gemini_client = "None"
    THEN HttpError(task, 503, "Embedding service unavailable")
    ELSE [task EXCEPT !.records = records, !.pc = "get_collection"]

\* the request comes in: get_qdrant_client(), up to `await products_repo.get_all()`
VectorizeStart(t) ==
    /\ runs < MaxRuns
    /\ tasks[t].pc \in {"idle", "done"}
    /\ runs' = runs + 1
    /\ LET task == [IdleTask EXCEPT !.kind = "vectorize", !.params = DefaultConfig,
                                     !.points_at_start = index.points]
       IN  tasks' = [tasks EXCEPT ![t] =
                        IF qdrant_client = "None"
                        THEN HttpError(task, 503, "Qdrant service unavailable")
                        ELSE [task EXCEPT !.pc = "get_all"]]
    /\ UNCHANGED <<process, entity, qdrant_client, gemini_client, db, index, edits, req>>

\* products = await products_repo.get_all(); a failure of the store reaches the
\* handler's last `except Exception`
VectorizeGetAll(t, ok) ==
    /\ tasks[t].pc = "get_all"
    /\ tasks' = [tasks EXCEPT ![t] =
                    IF ok THEN AfterGetAll(tasks[t], GetAll(db))
                    ELSE HttpError(tasks[t], 500, "Unexpected error during vectorization")]
    /\ UNCHANGED <<process, entity, qdrant_client, gemini_client, db, index, edits, req, runs>>

\* await qdrant_client.get_collection(collection_name): it returns when the call
\* goes through and the collection exists, and raises otherwise
VectorizeGetCollection(t, outcome, embedFail) ==
    /\ tasks[t].pc = "get_collection"
    /\ LET check == IF outcome # "ok" THEN outcome
                    ELSE IF index.exists THEN "found" ELSE "not_found"
       IN  tasks' = [tasks EXCEPT ![t] =
                        RunToAwait(AfterGetCollection(tasks[t], check), embedFail)]
    /\ UNCHANGED <<process, entity, qdrant_client, gemini_client, db, index, edits, req, runs>>

\* create_collection: collections = await client.get_collections()
CcList(t, outcome, embedFail) ==
    /\ tasks[t].pc = "cc_list"
    /\ tasks' = [tasks EXCEPT ![t] =
                    RunToAwait(IF outcome = "ok" THEN CcAfterList(tasks[t], index.exists)
                               ELSE CcOnError(tasks[t], outcome),
                               embedFail)]
    /\ UNCHANGED <<process, entity, qdrant_client, gemini_client, db, index, edits, req, runs>>

\* create_collection: result = await client.create_collection(**create_params).
\* The index refuses a name it has with an error that says "already exists"; a
\* result that is not true is outcome "false".
CcCreate(t, outcome, embedFail) ==
    /\ tasks[t].pc = "cc_create"
    /\ LET lands == outcome = "ok" /\ ~index.exists
           reply == IF outcome \in Failures THEN outcome
                    ELSE IF index.exists THEN "already exists"
                    ELSE IF outcome = "false" THEN "false" ELSE "created"
           task == [tasks[t] EXCEPT !.create_requests = @ + 1, !.create_reply = reply]
           after == IF reply = "created" THEN CcReturn(task, "True")
                    ELSE IF reply = "false" THEN CcReturn(task, "False")
                    ELSE CcOnError(task, reply)
       IN  /\ tasks' = [tasks EXCEPT ![t] = RunToAwait(after, embedFail)]
           /\ index' = IF lands THEN ServerCreate(index, task.params) ELSE index
    /\ UNCHANGED <<process, entity, qdrant_client, gemini_client, db, edits, req, runs>>

\* await qdrant_client.upsert(collection_name, points=[point]) for the record the
\* loop is at, then the loop up to its next await
VectorizeUpsert(t, outcome, embedFail) ==
    /\ tasks[t].pc = "upsert"
    /\ LET record == ItemAt(tasks[t].records, tasks[t].idx)
           point == PointStruct(record, VectorizeEmbedding(record))
           lands == outcome = "ok" /\ index.exists
       IN  /\ tasks' = [tasks EXCEPT ![t] =
                           RunToAwait(IF lands THEN OnUpserted(tasks[t], record)
                                      ELSE OnUpsertError(tasks[t], record),
                                      embedFail)]
           /\ index' = IF lands THEN [index EXCEPT !.points = Upsert(@, point)] ELSE index
    /\ UNCHANGED <<process, entity, qdrant_client, gemini_client, db, edits, req, runs>>

----------------------------------------------------------------------------
(* POST /qdrant/collections for the collection of `entity`, await by await *)

DistanceMap == {"Cosine", "Euclid", "Dot", "Manhattan"}

\* what a caller asks for: the defaults, another size and metric, and two bad requests
RequestedConfigs ==
    {DefaultConfig, [size |-> 384, distance |-> "Dot"],
     [size |-> 0, distance |-> "Cosine"], [size |-> 768, distance |-> "Chebyshev"]}

\* the validations, then get_qdrant_client(), up to `await client.get_collections()`
CreateEndpointEntry(task) ==
    IF task.params.distance \notin DistanceMap
    THEN HttpError(task, 400, "Invalid distance metric")
    ELSE IF task.params.size <= 0 THEN HttpError(task, 400, "Invalid vector size")
    ELSE IF qdrant_client = "None" THEN HttpError(task, 503, "Qdrant service unavailable")
    ELSE [task EXCEPT !.pc = "ep_list"]

CreateEndpointStart(t, params) ==
    /\ runs < MaxRuns
    /\ tasks[t].pc \in {"idle", "done"}
    /\ runs' = runs + 1
    /\ tasks' = [tasks EXCEPT ![t] =
                    CreateEndpointEntry([IdleTask EXCEPT !.kind = "create_collection",
                                                         !.params = params])]
    /\ UNCHANGED <<process, entity, qdrant_client, gemini_client, db, index, edits, req>>

\* collections = await client.get_collections(), then the branch on the name
EpList(t, outcome) ==
    /\ tasks[t].pc = "ep_list"
    /\ tasks' = [tasks EXCEPT ![t] =
                    IF outcome # "ok" THEN EndpointError(tasks[t], outcome)
                    ELSE IF index.exists THEN [tasks[t] EXCEPT !.pc = "ep_info"]
                    ELSE CcEnter(tasks[t])]
    /\ UNCHANGED <<process, entity, qdrant_client, gemini_client, db, index, edits, req, runs>>

\* collection_info = await client.get_collection(collection_name); return
\* {"status": "already_exists", ...}
EpInfo(t, outcome) ==
    /\ tasks[t].pc = "ep_info"
    /\ tasks' = [tasks EXCEPT ![t] =
                    IF outcome # "ok" THEN EndpointError(tasks[t], outcome)
                    ELSE HttpOk([tasks[t] EXCEPT !.existing_config = index.config],
                                "already_exists")]
    /\ UNCHANGED <<process, entity, qdrant_client, gemini_client, db, index, edits, req, runs>>

----------------------------------------------------------------------------
(* The collection's creation: both handlers, two invocations in flight, the
   collection absent or there already.  The records hold one record. *)

CreateOutcomes == Outcomes \cup {"false"}
EmbedFailures == SUBSET Ids

OneRecordDb == [id \in Ids |-> IF id = 1 THEN InitDb[1] ELSE NoDoc]

\* a collection made earlier with another size and metric, holding a point
OldCollection ==
    [exists |-> TRUE, config |-> [size |-> 384, distance |-> "Dot"],
     points |-> {PointStruct(InitDb[1], VectorizeEmbedding(InitDb[1]))}, creates |-> 1]

InitColl ==
    /\ entity \in Entities
    /\ qdrant_client = "client"
    /\ gemini_client = "client"
    /\ db = OneRecordDb
    /\ index \in {NoCollection, OldCollection}
    /\ edits = 0
    /\ req = IdleReq
    /\ tasks = [t \in TaskIds |-> IdleTask]
    /\ runs = 0
    /\ AfterStartup

NextColl ==
    \/ \E t \in TaskIds : VectorizeStart(t)
    \/ \E t \in TaskIds, ok \in BOOLEAN : VectorizeGetAll(t, ok)
    \/ \E t \in TaskIds, outcome \in Outcomes, embedFail \in {{}, {1}} :
           VectorizeGetCollection(t, outcome, embedFail)
    \/ \E t \in TaskIds, outcome \in Outcomes, embedFail \in {{}, {1}} :
           CcList(t, outcome, embedFail)
    \/ \E t \in TaskIds, outcome \in CreateOutcomes, embedFail \in {{}, {1}} :
           CcCreate(t, outcome, embedFail)
    \/ \E t \in TaskIds, outcome \in Outcomes, embedFail \in {{}, {1}} :
           VectorizeUpsert(t, outcome, embedFail)
    \/ \E t \in TaskIds, params \in RequestedConfigs : CreateEndpointStart(t, params)
    \/ \E t \in TaskIds, outcome \in Outcomes : EpList(t, outcome)
    \/ \E t \in TaskIds, outcome \in Outcomes : EpInfo(t, outcome)

SpecColl == InitColl /\ [][NextColl]_vars

----------------------------------------------------------------------------
(* The vectorization job: one invocation at a time, run again and again over
   record sets that do not change. *)

EmptyDb == [id \in Ids |-> NoDoc]
BlankAt(S) == [id \in Ids |-> [id |-> id, name |-> IF id \in S THEN 0 ELSE InitDb[id].name]]
JobDbs == {EmptyDb} \cup {BlankAt(S) : S \in {{}, {1}, {2}}}

InitJob ==
    /\ entity \in Entities
    /\ qdrant_client \in {"None", "client"}
    /\ gemini_client \in {"None", "client"}
    /\ db \in JobDbs
    /\ index = NoCollection
    /\ edits = 0
    /\ req = IdleReq
    /\ tasks = [t \in TaskIds |-> IdleTask]
    /\ runs = 0
    /\ AfterStartup

NextJob ==
    \/ VectorizeStart(1)
    \/ \E ok \in BOOLEAN : VectorizeGetAll(1, ok)
    \/ \E outcome \in Outcomes, embedFail \in EmbedFailures :
           VectorizeGetCollection(1, outcome, embedFail)
    \/ \E outcome \in Outcomes, embedFail \in EmbedFailures : CcList(1, outcome, embedFail)
    \/ \E outcome \in CreateOutcomes, embedFail \in EmbedFailures :
           CcCreate(1, outcome, embedFail)
    \/ \E outcome \in Outcomes, embedFail \in EmbedFailures :
           VectorizeUpsert(1, outcome, embedFail)

SpecJob == InitJob /\ [][NextJob]_vars

----------------------------------------------------------------------------
(* The calls of the embedding provider: a vectorization run over records of
   which one is blank, and the GraphQL searches that come in while it runs. *)

InitCalls ==
    /\ entity \in Entities
    /\ qdrant_client = "client"
    /\ gemini_client = "client"
    /\ db = BlankAt({2})
    /\ index = NoCollection
    /\ edits = 0
    /\ req = IdleReq
    /\ tasks = [t \in TaskIds |-> IdleTask]
    /\ runs = 0
    /\ AfterStartup

NextCalls ==
    \/ VectorizeStart(1)
    \/ \E ok \in BOOLEAN : VectorizeGetAll(1, ok)
    \/ \E outcome \in Outcomes, embedFail \in EmbedFailures :
           VectorizeGetCollection(1, outcome, embedFail)
    \/ \E outcome \in Outcomes, embedFail \in EmbedFailures : CcList(1, outcome, embedFail)
    \/ \E outcome \in CreateOutcomes, embedFail \in EmbedFailures :
           CcCreate(1, outcome, embedFail)
    \/ \E outcome \in Outcomes, embedFail \in EmbedFailures :
           VectorizeUpsert(1, outcome, embedFail)
    \/ \E query \in Queries, use_vector_search \in BOOLEAN, embedOk \in BOOLEAN :
           SearchResolver(query, NumIds, use_vector_search, embedOk)
    \/ \E ok \in BOOLEAN : IndexSearch(ok)
    \/ Hydrate
    \/ KeywordSearch
    \/ Respond

SpecCalls == InitCalls /\ [][NextCalls]_vars

----------------------------------------------------------------------------
(* Two vectorization runs of one entity in flight together, over records that do
   not change. *)

\* a call of the index goes through or fails
TwoOutcomes == {"ok", "timeout"}

InitTwo ==
    /\ entity \in Entities
    /\ qdrant_client = "client"
    /\ gemini_client = "client"
    /\ db = BlankAt({2})
    /\ index = NoCollection
    /\ edits = 0
    /\ req = IdleReq
    /\ tasks = [t \in TaskIds |-> IdleTask]
    /\ runs = 0
    /\ AfterStartup

NextTwo ==
    \/ \E t \in TaskIds : VectorizeStart(t)
    \/ \E t \in TaskIds, ok \in BOOLEAN : VectorizeGetAll(t, ok)
    \/ \E t \in TaskIds, outcome \in TwoOutcomes, embedFail \in FailingSets :
           VectorizeGetCollection(t, outcome, embedFail)
    \/ \E t \in TaskIds, outcome \in TwoOutcomes, embedFail \in FailingSets :
           CcList(t, outcome, embedFail)
    \/ \E t \in TaskIds, outcome \in TwoOutcomes, embedFail \in FailingSets :
           CcCreate(t, outcome, embedFail)
    \/ \E t \in TaskIds, outcome \in TwoOutcomes, embedFail \in FailingSets :
           VectorizeUpsert(t, outcome, embedFail)

SpecTwo == InitTwo /\ [][NextTwo]_vars

----------------------------------------------------------------------------
(* The event loop: the handlers are coroutines of one thread.  A coroutine gives
   the thread up at an await; generate_embedding is `def`, its embed_content an
   HTTP call made on the thread, so from the call to its return the thread is
   inside it and no other coroutine is resumed.  A vector search beside a
   vectorization run. *)

\* the resolver, up to the call of embed_content (or to its first await, or its end)
SearchEnter(query, use_vector_search) ==
    /\ running = "None"
    /\ req.pc = "idle"
    /\ req' = ResolverEntry([IdleReq EXCEPT !.origin = "graphql", !.query = query,
                                            !.limit = NumIds,
                                            !.use_vector_search = use_vector_search])
    /\ running' = IF req'.pc = "embed" THEN "search" ELSE "None"
    /\ UNCHANGED <<entity, qdrant_client, gemini_client, db, index, edits, tasks, runs,
                   mongo_client, database, lifespan, payments, pay, users, regs>>

\* embed_content returns or raises; the service goes on to `await ...search(...)`
EmbedContentReturns(ok) ==
    /\ running = "search"
    /\ req.pc = "embed"
    /\ req' = QueryEmbedding(req, ok)
    /\ running' = "None"
    /\ UNCHANGED <<entity, qdrant_client, gemini_client, db, index, edits, tasks, runs,
                   mongo_client, database, lifespan, payments, pay, users, regs>>

\* the vectorization run is resumed at the await it is suspended at
JobResumed ==
    \/ \E ok \in BOOLEAN : VectorizeGetAll(1, ok)
    \/ \E outcome \in Outcomes, embedFail \in FailingSets :
           VectorizeGetCollection(1, outcome, embedFail)
    \/ \E outcome \in Outcomes, embedFail \in FailingSets : CcList(1, outcome, embedFail)
    \/ \E outcome \in CreateOutcomes, embedFail \in FailingSets :
           CcCreate(1, outcome, embedFail)
    \/ \E outcome \in Outcomes, embedFail \in FailingSets :
           VectorizeUpsert(1, outcome, embedFail)

\* the search request is resumed at the await it is suspended at
SearchResumed ==
    \/ \E ok \in BOOLEAN : IndexSearch(ok)
    \/ Hydrate
    \/ KeywordSearch
    \/ Respond

\* the loop resumes a coroutine only when the thread is not inside a call
LoopResumes(step) == running = "None" /\ step

InitLoop ==
    /\ entity \in Entities
    /\ qdrant_client = "client"
    /\ gemini_client = "client"
    /\ db = BlankAt({2})
    /\ index = NoCollection
    /\ edits = 0
    /\ req = IdleReq
    /\ tasks = [t \in TaskIds |-> IdleTask]
    /\ runs = 0
    /\ AfterStartup

NextLoop ==
    \/ \E query \in Queries, use_vector_search \in BOOLEAN :
           SearchEnter(query, use_vector_search)
    \/ \E ok \in BOOLEAN : EmbedContentReturns(ok)
    \/ LoopResumes(VectorizeStart(1))
    \/ LoopResumes(JobResumed)
    \/ LoopResumes(SearchResumed)

SpecLoop == InitLoop /\ [][NextLoop]_vars

----------------------------------------------------------------------------
(* The lifespan: startup, the requests served, shutdown *)

\* what a call of a client function leaves in `lifespan`; an exception that gets
\* out of the lifespan ends it
Called(fn, result, phase) ==
    [lifespan EXCEPT !.call = fn, !.result = result,
                     !.phase = IF result = "raise" THEN "failed" ELSE phase]

\* await connect_to_mongo(): both globals are assigned before the ping; a failure
\* is printed and raised again
ConnectToMongo(ok) ==
    /\ lifespan.phase = "created"
    /\ mongo_client' = "client"
    /\ database' = "database"
    /\ lifespan' = Called("connect_to_mongo", IF ok THEN "None" ELSE "raise",
                          "mongo_connected")
    /\ UNCHANGED <<entity, qdrant_client, gemini_client, db, index, edits, req, tasks, runs,
                   running, payments, pay, users, regs>>

\* await connect_to_qdrant(), from `phase` on to `next`
ConnectToQdrant(outcome, next) ==
    LET result == ConnectToQdrantResult(outcome)
    IN  /\ qdrant_client' = ConnectToQdrantClient(qdrant_client, outcome)
        /\ lifespan' = [Called("connect_to_qdrant", result, next) EXCEPT
                            !.qdrant_connected =
                                IF lifespan.phase = "mongo_connected" THEN result ELSE @,
                            !.calls = Append(@, <<"connect_to_qdrant", outcome>>)]
        /\ UNCHANGED <<entity, gemini_client, db, index, edits, req, tasks, runs,
                       mongo_client, database, running, payments, pay, users, regs>>

\* connect_to_gemini(): genai.Client(api_key=...) is assigned, or raises
ConnectToGemini(ok) ==
    /\ lifespan.phase = "qdrant_connected"
    /\ gemini_client' = IF ok THEN "client" ELSE gemini_client
    /\ lifespan' = Called("connect_to_gemini", IF ok THEN "None" ELSE "raise", "serving")
    /\ UNCHANGED <<entity, qdrant_client, db, index, edits, req, tasks, runs,
                   mongo_client, database, running, payments, pay, users, regs>>

\* await close_mongo_connection()
CloseMongoConnection ==
    /\ lifespan.phase = "serving"
    /\ mongo_client' = CloseMongoClient(mongo_client)
    /\ lifespan' = Called("close_mongo_connection", "None", "mongo_closed")
    /\ UNCHANGED <<entity, qdrant_client, gemini_client, db, index, edits, req, tasks, runs,
                   database, running, payments, pay, users, regs>>

\* await close_qdrant_connection(), from `phase` on to `next`; closeOk: close()
\* does not raise
CloseQdrantConnection(closeOk, next) ==
    /\ qdrant_client' = CloseQdrantClient(qdrant_client, closeOk)
    /\ lifespan' = [Called("close_qdrant_connection", "None", next) EXCEPT
                        !.calls = Append(@, <<"close_qdrant_connection", closeOk>>)]
    /\ UNCHANGED <<entity, gemini_client, db, index, edits, req, tasks, runs,
                   mongo_client, database, running, payments, pay, users, regs>>

\* close_gemini_connection()
CloseGeminiConnection ==
    /\ lifespan.phase = "qdrant_closed"
    /\ gemini_client' = "None"
    /\ lifespan' = Called("close_gemini_connection", "None", "stopped")
    /\ UNCHANGED <<entity, qdrant_client, db, index, edits, req, tasks, runs,
                   mongo_client, database, running, payments, pay, users, regs>>

\* requests are served between the startup and the shutdown
Serving(step) == lifespan.phase = "serving" /\ step

InitLife ==
    /\ entity \in Entities
    /\ qdrant_client = "None"
    /\ gemini_client = "None"
    /\ db = OneRecordDb
    /\ index = NoCollection
    /\ edits = 0
    /\ req = IdleReq
    /\ tasks = [t \in TaskIds |-> IdleTask]
    /\ runs = 0
    /\ mongo_client = "None"
    /\ database = "None"
    /\ lifespan = NoLifespan
    /\ running = "None"
    /\ NoOtherCalls

NextLife ==
    \/ \E ok \in BOOLEAN : ConnectToMongo(ok)
    \/ \E outcome \in ConnectOutcomes :
           lifespan.phase = "mongo_connected" /\ ConnectToQdrant(outcome, "qdrant_connected")
    \/ \E ok \in BOOLEAN : ConnectToGemini(ok)
    \/ Serving(VectorizeStart(1))
    \/ Serving(JobResumed)
    \/ Serving(\E query \in Queries, use_vector_search \in BOOLEAN, embedOk \in BOOLEAN :
                   SearchResolver(query, NumIds, use_vector_search, embedOk))
    \/ Serving(SearchResumed)
    \/ CloseMongoConnection
    \/ \E closeOk \in BOOLEAN :
           lifespan.phase = "mongo_closed" /\ CloseQdrantConnection(closeOk, "qdrant_closed")
    \/ CloseGeminiConnection

SpecLife == InitLife /\ [][NextLife]_vars

----------------------------------------------------------------------------
(* The index client's functions called in any order *)

MaxCalls == 4     \* calls of connect_to_qdrant and close_qdrant_connection in one behaviour

NextClient ==
    \/ \E outcome \in ConnectOutcomes :
           Len(lifespan.calls) < MaxCalls /\ ConnectToQdrant(outcome, lifespan.phase)
    \/ \E closeOk \in BOOLEAN :
           Len(lifespan.calls) < MaxCalls /\ CloseQdrantConnection(closeOk, lifespan.phase)

SpecClient == InitLife /\ [][NextClient]_vars

----------------------------------------------------------------------------
(* POST /payments/validate: validate_payment_image and
   validate_payment_image_with_transfer_id, await by await *)

MaxLen == 2         \* characters of a transfer id
MaxPayments == 2    \* payments stored in one behaviour

Chars == {" ", "7"}
Texts == UNION {[1..n -> Chars] : n \in 0..MaxLen}

\* what generate_content answers for the image: JSON that does not validate, or a
\* GeminiPaymentResponse
Responses ==
    {NoResponse}
    \cup {[valid |-> TRUE, es_mensaje_banco |-> FALSE, numero_transferencia |-> <<"7">>]}
    \cup {[valid |-> TRUE, es_mensaje_banco |-> TRUE, numero_transferencia |-> text] :
             text \in Texts}

\* raise: the handler turns ValueError into 400 and any other exception into 500
PayRaise(p, exc) ==
    [p EXCEPT !.pc = "done", !.error = exc,
              !.http = IF exc = "ValueError" THEN 400 ELSE 500]

\* return PaymentValidationResult(...), and the handler's response
PayReturn(p) == [p EXCEPT !.pc = "done", !.returned = TRUE, !.http = 200]

\* detected_transfer_id = (numero_transferencia or "").strip(); matched = ...; the
\* payment goes to `await payments_repo.create` only when matched
AfterExtract(p, gemini_data) ==
    LET detected_transfer_id == Strip(gemini_data.numero_transferencia)
        matched == detected_transfer_id = Strip(p.transfer_id)
        p1 == [p EXCEPT !.gemini_data = gemini_data,
                        !.detected_transfer_id = detected_transfer_id,
                        !.matched = matched]
    IN  IF matched THEN [p1 EXCEPT !.pc = "create"] ELSE PayReturn(p1)

\* _extract_gemini_data: the API key, generate_content (a synchronous call),
\* model_validate_json, the es_mensaje_banco test
ExtractGeminiData(p, api_key, called, response) ==
    IF ~api_key THEN PayRaise(p, "ValueError")
    ELSE IF ~called THEN PayRaise(p, "APIError")
    ELSE LET p1 == [p EXCEPT !.answered = TRUE, !.response = response]
         IN  IF ~response.valid THEN PayRaise(p1, "ValueError")
             ELSE IF ~response.es_mensaje_banco THEN PayRaise(p1, "ValueError")
             ELSE AfterExtract(p1, response)

\* validate_payment_image_with_transfer_id up to its first await that suspends
ValidateWithTransferId(p, api_key, called, response) ==
    IF p.file_bytes = 0 THEN PayRaise(p, "ValueError")
    ELSE IF Strip(p.transfer_id) = <<>> THEN PayRaise(p, "ValueError")
    ELSE ExtractGeminiData(p, api_key, called, response)

\* the request: file_bytes = await file.read() (0: no bytes), then the service;
\* api_key: GEMINI_API_KEY is set; called: generate_content went through
ValidatePaymentImage(file_bytes, transfer_id, api_key, called, response) ==
    /\ pay.pc = "idle"
    /\ Len(payments) < MaxPayments
    /\ pay' = ValidateWithTransferId(
                  [IdlePay EXCEPT !.pc = "validate", !.file_bytes = file_bytes,
                                  !.transfer_id = transfer_id,
                                  !.payments_at_start = payments],
                  api_key, called, response)
    /\ UNCHANGED <<entity, qdrant_client, gemini_client, db, index, edits, req, tasks, runs,
                   mongo_client, database, lifespan, running, payments, users, regs>>

\* the document PaymentRepository.create inserts and returns
PaymentDocument(gemini_data, n) ==
    [id |-> n, numero_transferencia |-> gemini_data.numero_transferencia]

\* saved_payment = await payments_repo.create(payment_payload): get_database(),
\* insert_one; then the result is returned
PaymentsCreate(ok) ==
    /\ pay.pc = "create"
    /\ LET saved_payment == PaymentDocument(pay.gemini_data, Len(payments) + 1)
       IN  IF GetDatabase = "RuntimeError" \/ ~ok
           THEN /\ pay' = PayRaise(pay, IF ok THEN "RuntimeError" ELSE "PyMongoError")
                /\ UNCHANGED payments
           ELSE /\ payments' = Append(payments, saved_payment)
                /\ pay' = PayReturn([pay EXCEPT !.saved_payment = saved_payment])
    /\ UNCHANGED <<entity, qdrant_client, gemini_client, db, index, edits, req, tasks, runs,
                   mongo_client, database, lifespan, running, users, regs>>

\* the response is sent
PayRespond ==
    /\ pay.pc = "done"
    /\ pay' = IdlePay
    /\ UNCHANGED <<entity, qdrant_client, gemini_client, db, index, edits, req, tasks, runs,
                   mongo_client, database, lifespan, running, payments, users, regs>>

InitPay ==
    /\ entity = "products"
    /\ qdrant_client = "client"
    /\ gemini_client = "client"
    /\ db = InitDb
    /\ index = NoCollection
    /\ edits = 0
    /\ req = IdleReq
    /\ tasks = <<>>
    /\ runs = 0
    /\ Started
    /\ payments = <<>>
    /\ pay = IdlePay
    /\ users = <<>>
    /\ regs = [c \in RegIds |-> IdleReg]

NextPay ==
    \/ \E file_bytes \in {0, 1}, transfer_id \in Texts, api_key \in BOOLEAN,
          called \in BOOLEAN, response \in Responses :
           ValidatePaymentImage(file_bytes, transfer_id, api_key, called, response)
    \/ \E ok \in BOOLEAN : PaymentsCreate(ok)
    \/ PayRespond

SpecPay == InitPay /\ [][NextPay]_vars

----------------------------------------------------------------------------
(* POST /auth/register and the register mutation, await by await.  The users
   collection has no unique index: insert_one takes any document. *)

MaxUsers == 3       \* users stored before the last register call comes in

\* raise HTTPException(400, "Email already registered") in the REST handler,
\* Exception("Email already registered") in the mutation
AlreadyRegistered(r) ==
    [r EXCEPT !.pc = "done", !.existing_user = TRUE, !.error = "Email already registered",
              !.http = IF r.origin = "rest" THEN 400 ELSE 200]

\* find_one({"email": email}): a user of the collection with this email
UserByEmail(email) == \E k \in 1..Len(users) : users[k].email = email

\* the request comes in, up to `await auth_repo.get_user_by_email(email)`
RegisterStart(c, origin, email) ==
    /\ regs[c].pc = "idle"
    /\ Len(users) < MaxUsers
    /\ regs' = [regs EXCEPT ![c] = [IdleReg EXCEPT !.pc = "check", !.origin = origin,
                                                  !.email = email]]
    /\ UNCHANGED <<entity, qdrant_client, gemini_client, db, index, edits, req, tasks, runs,
                   mongo_client, database, lifespan, running, payments, pay, users>>

\* existing_user = await auth_repo.get_user_by_email(email); if existing_user: raise
RegisterCheck(c) ==
    /\ regs[c].pc = "check"
    /\ regs' = [regs EXCEPT ![c] = IF UserByEmail(regs[c].email)
                                   THEN AlreadyRegistered(regs[c])
                                   ELSE [regs[c] EXCEPT !.pc = "create"]]
    /\ UNCHANGED <<entity, qdrant_client, gemini_client, db, index, edits, req, tasks, runs,
                   mongo_client, database, lifespan, running, payments, pay, users>>

\* user = await auth_repo.create_user(...): insert_one(user_data); then the token
\* and the response
RegisterCreate(c, ok) ==
    /\ regs[c].pc = "create"
    /\ users' = IF ok THEN Append(users, [id |-> Len(users) + 1, email |-> regs[c].email])
                ELSE users
    /\ regs' = [regs EXCEPT ![c] =
                   IF ok THEN [regs[c] EXCEPT !.pc = "done", !.created = TRUE, !.http = 200]
                   ELSE [regs[c] EXCEPT !.pc = "done", !.error = "PyMongoError",
                                        !.http = IF regs[c].origin = "rest" THEN 500 ELSE 200]]
    /\ UNCHANGED <<entity, qdrant_client, gemini_client, db, index, edits, req, tasks, runs,
                   mongo_client, database, lifespan, running, payments, pay>>

\* the response is sent
RegisterRespond(c) ==
    /\ regs[c].pc = "done"
    /\ regs' = [regs EXCEPT ![c] = IdleReg]
    /\ UNCHANGED <<entity, qdrant_client, gemini_client, db, index, edits, req, tasks, runs,
                   mongo_client, database, lifespan, running, payments, pay, users>>

NextReg ==
    \/ \E c \in RegIds, origin \in Origins, email \in Emails : RegisterStart(c, origin, email)
    \/ \E c \in RegIds : RegisterCheck(c)
    \/ \E c \in RegIds, ok \in BOOLEAN : RegisterCreate(c, ok)
    \/ \E c \in RegIds : RegisterRespond(c)

\* the application serves, no user is registered
InitReg == InitPay

SpecReg == InitReg /\ [][NextReg]_vars

----------------------------------------------------------------------------
(* Properties of the search *)

IdsOf(docs) == [k \in 1..Len(docs) |-> docs[k].id]

\* the documents among `snapshots` that the store resolved, in their order
RECURSIVE KeepResolved(_)
KeepResolved(snapshots) ==
    IF snapshots = <<>> THEN <<>>
    ELSE (IF Head(snapshots) # NoDoc THEN <<Head(snapshots)>> ELSE <<>>)
         \o KeepResolved(Tail(snapshots))

\* the ranked ids whose fetch is done, with those the store did not resolve removed
RECURSIVE ResolvedIds(_, _)
ResolvedIds(ids, snapshots) ==
    IF snapshots = <<>> THEN <<>>
    ELSE (IF Head(snapshots) # NoDoc THEN <<Head(ids)>> ELSE <<>>)
         \o ResolvedIds(Tail(ids), Tail(snapshots))

NoDuplicates(seq) == \A j, k \in 1..Len(seq) : seq[j] = seq[k] => j = k

VectorRequest == req.origin = "graphql" /\ req.use_vector_search

\* the score of the index hit behind record `id`
ScoreBehind(id) ==
    LET k == CHOOSE k \in 1..Len(req.results) : req.results[k].payload.id = id
    IN  req.results[k].score

\* C1: the records a vector search has collected are the index's ranked ids with
\* the ids the store did not resolve removed, in rank order, none duplicated or
\* added; the returned sequence is that of all the ranked ids.
C1_RankOrderPreserved ==
    VectorRequest =>
        /\ IdsOf(req.products) = ResolvedIds(req.ids, req.fetched)
        /\ NoDuplicates(IdsOf(req.products))
        /\ req.returned => Len(req.fetched) = Len(req.ids)

\* C1: the index ranked three ids, the second no longer resolves, and the search
\* returned the first and the third in that order
C1_Witness ==
    /\ VectorRequest /\ req.returned
    /\ Len(req.ids) = 3
    /\ req.fetched[1] # NoDoc /\ req.fetched[2] = NoDoc /\ req.fetched[3] # NoDoc
    /\ IdsOf(req.products) = <<req.ids[1], req.ids[3]>>

\* C2: once the index has answered, a vector search meets no error whatever the
\* store resolves: it is fetching the next id or has returned, and every record it
\* holds was in the store when it was fetched.
C2_StaleRecordNeverFails ==
    (VectorRequest /\ req.index_calls # <<>> /\ req.failed # "index") =>
        /\ req.error = "None" /\ req.failed = "None"
        /\ req.pc \in {"hydrate", "done"}
        /\ req.pc = "hydrate" => Len(req.fetched) < Len(req.ids)
        /\ req.pc = "done" => req.returned
        /\ \A k \in 1..Len(req.products) :
              \E j \in 1..Len(req.fetched) :
                  req.fetched[j] # NoDoc /\ req.ids[j] = req.products[k].id

\* C2: a running search resolved its first id, then met an id that is still in the
\* index and no longer in the store, and returned all the same
C2_Witness ==
    /\ VectorRequest /\ req.returned /\ req.error = "None"
    /\ Len(req.fetched) >= 2
    /\ req.fetched[1] # NoDoc
    /\ \E j \in 2..Len(req.fetched) :
          /\ req.fetched[j] = NoDoc
          /\ \E p \in index.points : p.payload.id = req.ids[j]

\* C3: every record a vector search holds is the store's document as it was when
\* fetched, content included.
C3_CurrentContent ==
    VectorRequest => req.products = KeepResolved(req.fetched)

\* C3: a returned record carries a name other than the copy in its index point's
\* payload: it was edited after it was vectorized
C3_Witness ==
    /\ VectorRequest /\ req.returned
    /\ \E k \in 1..Len(req.products), h \in 1..Len(req.results) :
          /\ req.results[h].payload.id = req.products[k].id
          /\ req.results[h].payload.name # req.products[k].name

\* the threshold a request resolves to: the caller's, or 60 / 55 by entity
ExpectedThreshold ==
    IF req.score_threshold # NoThreshold THEN req.score_threshold
    ELSE IF entity = "products" THEN 60 ELSE 55

\* C4: a search with limit L and resolved threshold T gets at most L hits, returns
\* at most L entries, and every entry is behind a hit of score >= T.
C4_LimitAndThreshold ==
    /\ Len(req.results) <= req.limit
    /\ Len(req.ids) <= req.limit
    /\ Len(req.products) <= req.limit \/ ~req.use_vector_search
    /\ \A k \in 1..Len(req.ids) :
          \E h \in 1..Len(req.results) :
              req.results[h].payload.id = req.ids[k] /\ req.results[h].score >= ExpectedThreshold
    /\ req.use_vector_search =>
          \A k \in 1..Len(req.products) :
              \E h \in 1..Len(req.results) :
                  /\ req.results[h].payload.id = req.products[k].id
                  /\ req.results[h].score >= ExpectedThreshold

\* C4: the index holds more points above the threshold than the limit, and the
\* search returned exactly `limit` records
C4_Witness ==
    /\ VectorRequest /\ req.returned
    /\ req.limit = 2 /\ Len(req.products) = 2
    /\ Cardinality({p \in index.points :
                        Similarity(req.query_embedding, p.vector) >= ExpectedThreshold}) = 3

\* C5: along the sequence a vector search holds, the scores of the hits behind
\* consecutive entries never increase.
C5_ScoresNonIncreasing ==
    VectorRequest =>
        \A k \in 1..(Len(req.products) - 1) :
            ScoreBehind(req.products[k].id) >= ScoreBehind(req.products[k + 1].id)

\* C5: a search returned two records whose hits have different scores
C5_Witness ==
    /\ VectorRequest /\ req.returned
    /\ Len(req.products) >= 2
    /\ ScoreBehind(req.products[1].id) > ScoreBehind(req.products[Len(req.products)].id)

\* C6: the threshold sent to the index is the caller's when one is supplied, 0
\* included, and otherwise 60 for products and 55 for branches; the GraphQL
\* resolvers supply none.
C6_ThresholdSent ==
    /\ \A k \in 1..Len(req.index_calls) :
          req.index_calls[k].score_threshold =
              (IF req.score_threshold = NoThreshold
               THEN (IF entity = "products" THEN 60 ELSE 55)
               ELSE req.score_threshold)
    /\ req.origin = "graphql" => req.score_threshold = NoThreshold

\* C6: a caller of the service supplied the threshold 0 and 0 was sent to the index
C6_Witness ==
    /\ req.origin = "service" /\ req.score_threshold = 0
    /\ req.index_calls # <<>>
    /\ req.index_calls[1].score_threshold = 0

\* C7: every embed call of a search carries RETRIEVAL_QUERY, and the vector of
\* every point of the collection was embedded with RETRIEVAL_DOCUMENT.
C7_TaskTypes ==
    /\ \A k \in 1..Len(req.embed_calls) : req.embed_calls[k] = "RETRIEVAL_QUERY"
    /\ req.query_embedding \in {NoVector, [text |-> req.query, task_type |-> "RETRIEVAL_QUERY"]}
    /\ \A p \in index.points : p.vector.task_type = "RETRIEVAL_DOCUMENT"

\* C7: a search has embedded its query while the collection holds vectorized records
C7_Witness ==
    /\ req.pc = "search" /\ req.embed_calls # <<>>
    /\ index.points # {}

\* C8 as stated: whatever step failed, the search fails with SearchUnavailableError
C8_SearchUnavailableError ==
    req.failed # "None" => req.error = "SearchUnavailableError"

\* C8, amended: when the clients are not initialized, the embedding call fails or
\* the index call fails, the search ends with exactly that step's exception
\* (RuntimeError, the embedding provider's error, the index client's error) and
\* returns nothing: no ids, no records.
C8_FailurePropagates ==
    req.failed # "None" =>
        /\ req.pc = "done" /\ ~req.returned
        /\ req.ids = <<>> /\ req.products = <<>>
        /\ req.failed \in {"client", "embedding", "index"}
        /\ req.failed = "client" => req.error = "RuntimeError" /\ req.embed_calls = <<>>
        /\ req.failed = "embedding" => req.error = "GeminiAPIError" /\ req.index_calls = <<>>
        /\ req.failed = "index" => req.error = "QdrantException"

\* C8: the embedding succeeded, the index call failed, and the search ended with the
\* index client's exception
C8_Witness ==
    /\ req.failed = "index" /\ req.error = "QdrantException"
    /\ req.embed_calls # <<>> /\ req.index_calls # <<>>
    /\ ~req.returned

\* C9: a search with vector search enabled never calls the repository's search();
\* when a step of it fails the request ends with an error and returns nothing.
C9_NoKeywordFallback ==
    req.use_vector_search =>
        /\ req.store_searches = <<>>
        /\ req.pc # "keyword"
        /\ req.failed # "None" => req.pc = "done" /\ req.error # "None" /\ ~req.returned

\* C9: the embedding of a vector search failed, the keyword search would have found
\* a record, and the request ended with the error
C9_Witness ==
    /\ VectorRequest /\ req.failed = "embedding" /\ req.error # "None"
    /\ req.store_searches = <<>>
    /\ RepoSearch(db, req.query) # <<>>

\* C10: a search with use_vector_search = false makes no embedding call and no
\* index call, fails at no step of the vector path whether or not the index client
\* is set, and returns the records of one repository search(), each matching the
\* query.
C10_KeywordBypass ==
    (req.origin = "graphql" /\ ~req.use_vector_search) =>
        /\ req.embed_calls = <<>> /\ req.index_calls = <<>>
        /\ req.failed = "None" /\ req.error = "None"
        /\ req.pc \in {"keyword", "done"}
        /\ req.pc = "done" =>
              /\ req.returned
              /\ req.store_searches = <<req.query>>
              /\ \A k \in 1..Len(req.products) : Matches(req.query, req.products[k])
              /\ NoDuplicates(IdsOf(req.products))

\* C10: with the index client not initialized, a keyword search returned a record
C10_Witness ==
    /\ req.origin = "graphql" /\ ~req.use_vector_search
    /\ qdrant_client = "None"
    /\ req.returned /\ Len(req.products) >= 1

----------------------------------------------------------------------------
(* Properties of the collection's creation *)

\* the task is inside create_collection() or the endpoint's own existence check
InEnsure(task) == task.pc \in {"ep_list", "ep_info", "cc_list", "cc_create"}

\* C11: a step of create_collection() or of the endpoint's check taken while the
\* collection exists leaves its size, metric and points as they are; a
\* create_collection() whose listing shows the name returns True (the caller goes
\* on without error) and has sent no create request; the endpoint answers
\* "already_exists" with 200 and has not called create_collection().
C11_EnsureIdempotent ==
    [][\A t \in TaskIds :
          LET a == tasks[t]
              b == tasks'[t]
          IN  (a # b /\ InEnsure(a)) =>
                  /\ index.exists => index' = index
                  /\ (a.pc = "cc_list" /\ b.cc_seen = "exists") =>
                        /\ b.cc_result = "True" /\ b.create_requests = 0
                        /\ b.error = "None"
                        /\ b.pc = "done" => b.http = 200
                  /\ b.status = "already_exists" =>
                        /\ b.http = 200 /\ b.cc_calls = 0 /\ b.create_requests = 0
                        /\ b.existing_config = index.config]_vars

\* C11: create_collection() was called twice with the same size and metric: the
\* first call created the collection, the second found it and returned True
C11_Witness ==
    /\ tasks[1].create_reply = "created" /\ tasks[1].cc_result = "True"
    /\ tasks[2].cc_calls = 1 /\ tasks[2].cc_seen = "exists" /\ tasks[2].cc_result = "True"
    /\ tasks[2].params = tasks[1].params
    /\ index.config = tasks[1].params /\ index.creates = 1

\* C12: a caller whose existence check showed no collection and whose create
\* request then met the collection another caller had created in between gets
\* True from create_collection() and no error; the index never carries out more
\* than one create for the name.
C12_RaceIsSuccess ==
    /\ \A t \in TaskIds :
          tasks[t].create_reply = "already exists" =>
              /\ tasks[t].cc_seen = "absent"
              /\ tasks[t].cc_result = "True"
              /\ tasks[t].error = "None"
              /\ tasks[t].pc = "done" => tasks[t].http = 200
              /\ index.exists
    /\ index.creates <= 1

\* C12: both callers passed the existence check before either create landed; one
\* created the collection, the other was refused, and both got True
C12_Witness ==
    \E t, u \in TaskIds :
        /\ tasks[t].cc_seen = "absent" /\ tasks[u].cc_seen = "absent"
        /\ tasks[t].create_reply = "created" /\ tasks[u].create_reply = "already exists"
        /\ tasks[t].cc_result = "True" /\ tasks[u].cc_result = "True"
        /\ tasks[t].params = tasks[u].params

\* C13 as stated: a vectorization run whose check of the collection failed on the
\* connection calls no create_collection() and ends as service unavailable (503)
C13_ConnectionFailureNoCreate ==
    \A t \in TaskIds :
        (tasks[t].kind = "vectorize" /\ tasks[t].check \in Failures) =>
            /\ tasks[t].cc_calls = 0 /\ tasks[t].create_requests = 0
            /\ tasks[t].pc = "done" => tasks[t].http = 503

----------------------------------------------------------------------------
(* Properties of the vectorization job *)

\* the run of task 1
job == tasks[1]

\* the records of the store that are not blank
Vectorizable == {id \in Ids : db[id] # NoDoc /\ db[id].name # 0}

\* the run has returned its report of the loop
Reported == job.pc = "done" /\ job.status \in {"failed", "partial_success", "success"}

\* the events of `log` about record `id`, of one kind
EventsOf(log, kind, id) == {k \in 1..Len(log) : log[k][1] = kind /\ log[k][2] = id}

\* C14: the collection holds at most one point per record, each under the id
\* derived from the record's id, and none for a record that is absent or blank;
\* whenever a run over the unchanged records ends without an error, the first or
\* a later one, the points are exactly those of the records that are not blank.
C14_RerunIdempotent ==
    /\ \A p \in index.points :
          /\ p.point_id = <<"uuid5", p.payload.id>>
          /\ p.payload.id \in Vectorizable
    /\ \A p, q \in index.points : p.point_id = q.point_id => p = q
    /\ Cardinality(index.points) <= Cardinality(Vectorizable)
    /\ (Reported /\ job.errors = <<>>) =>
          /\ {p.point_id : p \in index.points} = {<<"uuid5", id>> : id \in Vectorizable}
          /\ Cardinality(index.points) = Cardinality(Vectorizable)

\* C14: a second run vectorized every record again, over a collection that held
\* every record's point already, and the collection holds as many points as before
C14_Witness ==
    /\ runs = 2 /\ Reported
    /\ Cardinality(job.points_at_start) = NumIds
    /\ job.vectorized_count = NumIds
    /\ Cardinality(index.points) = NumIds

\* C15: every blank record the loop is done with is listed under skipped once and
\* not under errors, no embed and no upsert was called for it, the collection
\* holds no point of it, and vectorized_count counts the upserts that succeeded.
C15_BlankIsSkipped ==
    job.kind = "vectorize" =>
        /\ \A k \in 1..job.idx :
              LET record == job.records[k]
              IN  record.name = 0 =>
                      /\ Cardinality({m \in 1..Len(job.skipped) :
                                         job.skipped[m] = record.id}) = 1
                      /\ \A m \in 1..Len(job.errors) : job.errors[m][1] # record.id
                      /\ EventsOf(job.log, "embed", record.id) = {}
                      /\ EventsOf(job.log, "upsert", record.id) = {}
                      /\ \A p \in index.points : p.payload.id # record.id
        /\ job.vectorized_count =
              Cardinality({k \in 1..Len(job.log) :
                              job.log[k][1] = "upsert" /\ job.log[k][3]})
        /\ \A m \in 1..Len(job.skipped) : db[job.skipped[m]].name = 0

\* C15: a run over three records, one of them blank, reported the blank one as
\* skipped and the other two as vectorized
C15_Witness ==
    /\ Reported
    /\ Len(job.records) = 3
    /\ Len(job.skipped) = 1 /\ job.errors = <<>>
    /\ job.vectorized_count = 2

C17_ThreeOutcomes ==
    (job.kind = "vectorize" /\ job.pc = "done" /\ job.http = 200) =>
        /\ job.status \in {"failed", "partial_success", "success"}
        /\ job.status = "failed" <=> job.vectorized_count = 0

\* C17, amended: the report of a run that found at least one record carries
\* "failed" exactly when nothing was vectorized, "partial_success" exactly when
\* something was and there is an error or a skip, "success" exactly when there is
\* no error and no skip; a run that found no record answers "no_data".
C17_ReportStatus ==
    (job.kind = "vectorize" /\ job.pc = "done" /\ job.http = 200) =>
        /\ job.records = <<>> <=> job.status = "no_data"
        /\ job.records # <<>> =>
              /\ job.status \in {"failed", "partial_success", "success"}
              /\ job.status = "failed" <=> job.vectorized_count = 0
              /\ job.status = "partial_success" <=>
                    (job.vectorized_count > 0 /\ (job.errors # <<>> \/ job.skipped # <<>>))
              /\ job.status = "success" <=> (job.errors = <<>> /\ job.skipped = <<>>)

\* C17: a run with a skip and an error and nothing vectorized reported "failed"
C17_Witness ==
    /\ job.pc = "done" /\ job.status = "failed"
    /\ job.skipped # <<>> /\ job.errors # <<>>
    /\ Len(job.records) = 3

PlaceOf(id) == CHOOSE k \in 1..Len(job.records) : job.records[k].id = id

\* C19: the calls of a run come in record order; an upsert comes right after the
\* successful embed of the same record; an embed comes first or right after the
\* upsert or the failed embed of an earlier record.
C19_Sequential ==
    job.kind = "vectorize" =>
        \A k \in 1..Len(job.log) :
            /\ \E m \in 1..Len(job.records) : job.records[m].id = job.log[k][2]
            /\ \A m \in 1..(k - 1) : PlaceOf(job.log[m][2]) <= PlaceOf(job.log[k][2])
            /\ job.log[k][1] = "upsert" =>
                  k > 1 /\ job.log[k - 1] = <<"embed", job.log[k][2], TRUE>>
            /\ (job.log[k][1] = "embed" /\ k > 1) =>
                  /\ job.log[k - 1] # <<"embed", job.log[k - 1][2], TRUE>>
                  /\ PlaceOf(job.log[k - 1][2]) < PlaceOf(job.log[k][2])

\* C19: three records were embedded and upserted one after the other
C19_Witness ==
    /\ Reported
    /\ job.log = <<<<"embed", 1, TRUE>>, <<"upsert", 1, TRUE>>,
                   <<"embed", 2, TRUE>>, <<"upsert", 2, TRUE>>,
                   <<"embed", 3, TRUE>>, <<"upsert", 3, TRUE>>>>

----------------------------------------------------------------------------
(* Properties of the calls of the embedding provider *)

\* C20: a search request has made at most one embed call, none when it takes the
\* keyword search or the service cannot be constructed; a vectorization run has
\* made at most one embed call for each record, none for a blank one; a call that
\* failed is counted like one that succeeded.
C20_AtMostOneEmbedCall ==
    /\ Len(req.embed_calls) <= 1
    /\ req.failed = "embedding" => Len(req.embed_calls) = 1
    /\ ~req.use_vector_search => req.embed_calls = <<>>
    /\ \A id \in Ids : Cardinality(EventsOf(job.log, "embed", id)) <= 1
    /\ \A k \in 1..Len(job.errors) :
          job.errors[k][2] = "embedding_generation" =>
              Cardinality(EventsOf(job.log, "embed", job.errors[k][1])) = 1

\* C20: the embed call of a search failed while a run in which the embed call of
\* a record failed is in flight: one call each
C20_Witness ==
    /\ req.failed = "embedding" /\ Len(req.embed_calls) = 1
    /\ job.errors # <<>> /\ job.errors[1] = <<1, "embedding_generation">>
    /\ job.pc = "upsert"
    /\ Cardinality(EventsOf(job.log, "embed", 1)) = 1

----------------------------------------------------------------------------
(* Properties of the event loop *)

\* the run is suspended at an await of the store or of the index
JobSuspended == job.pc \in {"get_all", "get_collection", "cc_list", "cc_create", "upsert"}

\* C21: a task suspends at its network calls without blocking the others: while
\* the search waits on its embedding call, a vectorization run that is suspended
\* at an await can be resumed.
C21_EmbeddingCallDoesNotBlock ==
    (req.pc = "embed" /\ JobSuspended) => ENABLED LoopResumes(JobResumed)

----------------------------------------------------------------------------
(* Properties of the lifespan and of the clients *)

\* C22: an index that cannot be connected to at startup degrades the feature, not
\* the process: connect_to_qdrant returns and never raises, so the startup is never
\* ended by it; once it has returned False the vectorization handler answers 503
\* and touches nothing, the vector search fails, and the keyword search returns the
\* store's matches.
C22_IndexDownDegrades ==
    /\ lifespan.call = "connect_to_qdrant" =>
           lifespan.result \in {"True", "False"} /\ lifespan.phase # "failed"
    /\ lifespan.qdrant_connected = "False" =>
           /\ qdrant_client = "None"
           /\ index = NoCollection
           /\ job.pc # "idle" =>
                  /\ job.pc = "done"
                  /\ job.http = 503
                  /\ job.error = "Qdrant service unavailable"
                  /\ job.log = <<>>
           /\ req.pc = "done" /\ req.use_vector_search => req.error # "None"
           /\ req.pc = "done" /\ ~req.use_vector_search =>
                  /\ req.returned
                  /\ req.error = "None"
                  /\ req.products = RepoSearch(db, req.query)

C22_Witness ==
    /\ lifespan.phase = "serving"
    /\ lifespan.qdrant_connected = "False"
    /\ job.pc = "done" /\ job.http = 503
    /\ req.pc = "done" /\ ~req.use_vector_search /\ req.returned /\ req.products # <<>>

\* C28: whenever connect_to_qdrant has returned False, whatever calls of it and
\* of close_qdrant_connection came before, the global client is None and
\* get_qdrant_client raises RuntimeError; whenever it has returned True the client is
\* set and get_qdrant_client returns it.
C28_FalseMeansNoClient ==
    lifespan.call = "connect_to_qdrant" =>
        /\ lifespan.result = "False" =>
               qdrant_client = "None" /\ GetQdrantClient = "RuntimeError"
        /\ lifespan.result = "True" =>
               qdrant_client = "client" /\ GetQdrantClient = qdrant_client

\* C29: once the lifespan's shutdown is through, every client handle is released:
\* get_database, get_qdrant_client and get_gemini_client raise RuntimeError, the
\* index handle also when its close() raised.
C29_ReleasedAfterShutdown ==
    lifespan.phase = "stopped" =>
        /\ GetDatabase = "RuntimeError"
        /\ GetQdrantClient = "RuntimeError"
        /\ GetGeminiClient = "RuntimeError"

----------------------------------------------------------------------------
(* Properties of the vectorization run, continued *)

\* the run has not taken up any record
NothingProcessed ==
    /\ job.idx = 0 /\ job.log = <<>>
    /\ job.vectorized_count = 0 /\ job.errors = <<>> /\ job.skipped = <<>>

\* C23 as stated: after any run that ends without a job-level failure the target
\* collection exists.
C23_EveryRunEnsures ==
    job.pc = "done" /\ job.http = 200 => index.exists

\* C23, amended: a run that found at least one record has all records fetched
\* when it ensures the collection, takes up no record before the collection is
\* there, creates it with size 768 when it is absent, and leaves it existing when it
\* ends without a job-level failure; a run that found none reports "no_data".
C23_EnsureBeforeLoop ==
    /\ job.pc = "get_all" => NothingProcessed
    /\ job.pc = "get_collection" \/ InEnsure(job) =>
           job.records = GetAll(db) /\ job.records # <<>> /\ NothingProcessed
    /\ job.pc \in {"loop", "upsert"} \/ ~NothingProcessed => index.exists
    /\ job.pc = "done" /\ job.http = 200 /\ job.status # "no_data" =>
           index.exists /\ job.records = GetAll(db) /\ job.records # <<>>
    /\ job.pc = "done" /\ job.status = "no_data" => GetAll(db) = <<>>
    /\ job.create_reply = "created" =>
           index.exists /\ index.config.size = 768 /\ index.config = DefaultConfig

C23_Witness ==
    /\ job.pc = "done" /\ job.http = 200 /\ job.status = "success"
    /\ job.check = "not_found" /\ job.create_reply = "created"
    /\ index.exists /\ index.config.size = 768

----------------------------------------------------------------------------
(* Properties of the search, continued *)

\* C24: when no entry of the index scores at or above the request's threshold, the
\* index call that goes through ends the search: it returns the empty sequence, no
\* error, and has fetched nothing from the record store.
C24_NothingAboveThreshold ==
    [][(/\ req.pc = "search"
        /\ req'.pc # "search"
        /\ req'.error # "QdrantException"
        /\ \A p \in index.points :
               Similarity(req.query_embedding, p.vector) < ExpectedThreshold)
       => /\ req'.pc = "done"
          /\ req'.returned
          /\ req'.error = "None"
          /\ req'.results = <<>> /\ req'.ids = <<>>
          /\ req'.fetched = <<>> /\ req'.products = <<>>
          /\ req'.store_searches = <<>>]_vars

\* C24: a search with threshold 99 and a limit above 0 over an index that holds
\* points returned the empty sequence
C24_Witness ==
    /\ req.pc = "done" /\ req.returned
    /\ req.score_threshold = 99 /\ req.limit > 0
    /\ Len(req.index_calls) = 1 /\ req.index_calls[1].score_threshold = 99
    /\ index.points # {}
    /\ \A p \in index.points : Similarity(req.query_embedding, p.vector) < 99
    /\ req.ids = <<>> /\ req.fetched = <<>>

----------------------------------------------------------------------------
(* Properties of the payment validation *)

\* the places of `text` that hold no whitespace
Inked(text) == {k \in 1..Len(text) : text[k] # " "}

\* `text` from its first to its last character that is not whitespace
Trimmed(text) ==
    IF Inked(text) = {} THEN <<>>
    ELSE SubSeq(text, CHOOSE a \in Inked(text) : \A b \in Inked(text) : a <= b,
                      CHOOSE a \in Inked(text) : \A b \in Inked(text) : a >= b)

\* C25: a payment is stored only by a call whose detected transfer id equals the
\* caller's after trimming both; a call that returns has matched exactly when the
\* trimmed ids are equal, carries saved_payment exactly when matched, and has then
\* stored that one document; an empty file, a blank transfer id and an image that
\* is not a bank message end in ValueError (400) with nothing stored.
C25_PersistOnlyIfMatched ==
    pay.pc # "idle" =>
        /\ pay.pc = "done" /\ pay.returned =>
               /\ pay.matched <=> Trimmed(pay.gemini_data.numero_transferencia)
                                      = Trimmed(pay.transfer_id)
               /\ pay.saved_payment # NoPayment <=> pay.matched
               /\ pay.error = "None"
        /\ payments # pay.payments_at_start =>
               /\ pay.pc = "done" /\ pay.returned /\ pay.matched
               /\ payments = Append(pay.payments_at_start, pay.saved_payment)
               /\ pay.saved_payment.numero_transferencia
                      = pay.gemini_data.numero_transferencia
        /\ pay.pc = "done" /\ pay.returned /\ pay.matched =>
               payments = Append(pay.payments_at_start, pay.saved_payment)
        /\ (\/ pay.file_bytes = 0
            \/ Inked(pay.transfer_id) = {}
            \/ (pay.answered /\ ~pay.response.es_mensaje_banco)) =>
               /\ pay.pc = "done" /\ ~pay.returned
               /\ pay.error = "ValueError" /\ pay.http = 400
               /\ payments = pay.payments_at_start

\* C25: the ids differ in their whitespace only, and the payment was stored
C25_Witness ==
    /\ pay.pc = "done" /\ pay.returned /\ pay.matched
    /\ pay.transfer_id # pay.gemini_data.numero_transferencia
    /\ Len(pay.transfer_id) > 1 /\ Len(pay.gemini_data.numero_transferencia) > 1
    /\ pay.saved_payment # NoPayment
    /\ Len(payments) = Len(pay.payments_at_start) + 1

----------------------------------------------------------------------------
(* Properties of the vectorization run: the report's counts *)

\* the records whose upsert went through, of the errors, of the skips
UpsertedIds == {id \in Ids : \E k \in 1..Len(job.log) : job.log[k] = <<"upsert", id, TRUE>>}
ErrorIds == {job.errors[m][1] : m \in 1..Len(job.errors)}
SkippedIds == {job.skipped[m] : m \in 1..Len(job.skipped)}

\* C26: the loop counts every record it is done with exactly once, as vectorized,
\* as an error or as skipped; at the report these are all the records fetched:
\* total = vectorized_count + errors + skipped, the three groups are disjoint, and
\* vectorized_count is the number of upserts that went through.
C26_EveryRecordAccounted ==
    job.kind = "vectorize" =>
        /\ job.idx = job.vectorized_count + Len(job.errors) + Len(job.skipped)
        /\ job.vectorized_count =
               Cardinality({k \in 1..Len(job.log) :
                               job.log[k][1] = "upsert" /\ job.log[k][3]})
        /\ job.vectorized_count = Cardinality(UpsertedIds)
        /\ Len(job.errors) = Cardinality(ErrorIds)
        /\ Len(job.skipped) = Cardinality(SkippedIds)
        /\ UpsertedIds \cap ErrorIds = {}
        /\ UpsertedIds \cap SkippedIds = {}
        /\ ErrorIds \cap SkippedIds = {}
        /\ Reported =>
               /\ Len(job.records) =
                      job.vectorized_count + Len(job.errors) + Len(job.skipped)
               /\ UpsertedIds \cup ErrorIds \cup SkippedIds =
                      {job.records[k].id : k \in 1..Len(job.records)}

\* C26: a report with a record in each group
C26_Witness ==
    /\ Reported
    /\ Len(job.records) = 3
    /\ job.vectorized_count = 1 /\ Len(job.errors) = 1 /\ Len(job.skipped) = 1

----------------------------------------------------------------------------
(* Properties of two runs in flight together *)

\* the records run `t` has upserted
UpsertedBy(t) ==
    {id \in Ids : \E k \in 1..Len(tasks[t].log) : tasks[t].log[k] = <<"upsert", id, TRUE>>}

\* the run has returned its report of the loop, without an error
CleanReport(t) ==
    /\ tasks[t].pc = "done" /\ tasks[t].errors = <<>>
    /\ tasks[t].status \in {"partial_success", "success"}

\* C27: however the steps of two runs over the same records interleave, the
\* collection holds one point per record vectorized, under the id a single run
\* gives it and with that run's vector and payload, and never two for a record;
\* when a run reports without an error the points are those of the records that
\* are not blank.
C27_ConcurrentRunsNoDuplicates ==
    /\ \A p, q \in index.points : p.payload.id = q.payload.id => p = q
    /\ \A p \in index.points :
          /\ p.payload.id \in Vectorizable
          /\ p = PointStruct(db[p.payload.id], VectorizeEmbedding(db[p.payload.id]))
          /\ p.point_id = <<"uuid5", p.payload.id>>
    /\ \A t \in TaskIds :
          /\ UpsertedBy(t) \subseteq {p.payload.id : p \in index.points}
          /\ CleanReport(t) => {p.payload.id : p \in index.points} = Vectorizable
    /\ Cardinality(index.points) <= Cardinality(Vectorizable)

\* C27: both runs are in flight, both have upserted record 1 and are at the upsert
\* of record 3; the collection holds one point
C27_Witness ==
    /\ tasks[1].pc = "upsert" /\ tasks[2].pc = "upsert"
    /\ UpsertedBy(1) = {1} /\ UpsertedBy(2) = {1}
    /\ Cardinality(index.points) = 1

----------------------------------------------------------------------------
(* Properties of the registration *)

\* C30: after any interleaving of register calls at most one user exists per
\* email, and a call that found its email registered has created no user.
C30_OneUserPerEmail ==
    /\ \A j, k \in 1..Len(users) : users[j].email = users[k].email => j = k
    /\ \A c \in RegIds :
          regs[c].error = "Email already registered" => ~regs[c].created

====
